---- MODULE Spec2Model ----
(***************************************************************************)
(* Model of the SPACEINFRA index weighting engine                          *)
(* (src/research/weighting_algorithm.py, class SpaceIndexWeighting).       *)
(*                                                                         *)
(* Numbers.  The engine computes on IEEE doubles held in pandas Series.    *)
(* A double is modelled as a record [k, n, d]: k = "num" is the exact      *)
(* rational n/d in lowest terms (d > 0), k = "nan", "inf", "ninf" are the  *)
(* three non-finite values numpy produces instead of raising.  Rounding    *)
(* error of finite results is not modelled; the non-finite cases           *)
(* (x/0, 0/0, nan propagation, nan-skipping reductions) are.               *)
(***************************************************************************)
EXTENDS Integers, Sequences, FiniteSets

(***************************************************************************)
(* Rational arithmetic with the IEEE non-finite values.                    *)
(***************************************************************************)
Abs(x) == IF x < 0 THEN -x ELSE x

RECURSIVE GCD(_, _)
GCD(a, b) == IF b = 0 THEN a ELSE GCD(b, a % b)

NaN == [k |-> "nan", n |-> 0, d |-> 1]

Inf == [k |-> "inf", n |-> 0, d |-> 1]

NInf == [k |-> "ninf", n |-> 0, d |-> 1]

\* n/d in lowest terms, d # 0
Num(n, d) ==
    LET g == GCD(Abs(n), Abs(d))
        s == IF d < 0 THEN -1 ELSE 1
    IN  [k |-> "num", n |-> s * (n \div g), d |-> s * (d \div g)]

FromInt(i) == [k |-> "num", n |-> i, d |-> 1]

IsNaN(a) == a.k = "nan"

IsNum(a) == a.k = "num"

\* -1, 0, 1 for negative, zero, positive (non-nan)
Sign(a) ==
    CASE a.k = "inf" -> 1
      [] a.k = "ninf" -> -1
      [] OTHER -> IF a.n > 0 THEN 1 ELSE IF a.n < 0 THEN -1 ELSE 0

Signed(s) == IF s > 0 THEN Inf ELSE IF s < 0 THEN NInf ELSE NaN

FNeg(a) ==
    CASE a.k = "nan" -> NaN
      [] a.k = "inf" -> NInf
      [] a.k = "ninf" -> Inf
      [] OTHER -> [k |-> "num", n |-> -a.n, d |-> a.d]

FAdd(a, b) ==
    IF IsNaN(a) \/ IsNaN(b) THEN NaN
    ELSE IF ~IsNum(a) /\ ~IsNum(b) THEN (IF a.k = b.k THEN a ELSE NaN)
    ELSE IF ~IsNum(a) THEN a
    ELSE IF ~IsNum(b) THEN b
    ELSE LET g == GCD(a.d, b.d)
         IN  Num(a.n * (b.d \div g) + b.n * (a.d \div g), (a.d \div g) * b.d)

FSub(a, b) == FAdd(a, FNeg(b))

FMul(a, b) ==
    IF IsNaN(a) \/ IsNaN(b) THEN NaN
    ELSE IF ~IsNum(a) \/ ~IsNum(b) THEN Signed(Sign(a) * Sign(b))
    ELSE LET g1 == GCD(Abs(a.n), b.d)
             g2 == GCD(Abs(b.n), a.d)
         IN  Num((a.n \div g1) * (b.n \div g2), (a.d \div g2) * (b.d \div g1))

\* numpy float division: x/0 is +-inf, 0/0 is nan, nothing is raised
FDiv(a, b) ==
    IF IsNaN(a) \/ IsNaN(b) THEN NaN
    ELSE IF ~IsNum(a) /\ ~IsNum(b) THEN NaN
    ELSE IF ~IsNum(b) THEN FromInt(0)
    ELSE IF ~IsNum(a) THEN (IF b.n < 0 THEN FNeg(a) ELSE a)
    ELSE IF b.n = 0 THEN Signed(Sign(a))
    ELSE LET g1 == GCD(Abs(a.n), Abs(b.n))
             g2 == GCD(a.d, b.d)
         IN  Num((a.n \div g1) * (b.d \div g2), (a.d \div g2) * (b.n \div g1))

\* IEEE comparisons: every comparison with nan is false
FLt(a, b) ==
    IF IsNaN(a) \/ IsNaN(b) THEN FALSE
    ELSE IF a.k = "inf" \/ b.k = "ninf" THEN FALSE
    ELSE IF a.k = "ninf" \/ b.k = "inf" THEN TRUE
    ELSE LET g == GCD(a.d, b.d)
         IN  a.n * (b.d \div g) < b.n * (a.d \div g)

FEq(a, b) == ~IsNaN(a) /\ ~IsNaN(b) /\ a = b

FLe(a, b) == FLt(a, b) \/ FEq(a, b)

FAbs(a) == IF Sign(a) < 0 THEN FNeg(a) ELSE a

(***************************************************************************)
(* pandas Series, modelled as sequences over the default RangeIndex.       *)
(***************************************************************************)
\* The Series <<f[1], ..., f[n]>> with every element computed (once)
RECURSIVE Series(_, _)
Series(f, n) == IF n = 0 THEN <<>> ELSE Append(Series(f, n - 1), f[n])

Range(s) == {s[i] : i \in DOMAIN s}

RECURSIVE FoldAdd(_, _)
FoldAdd(s, acc) == IF s = <<>> THEN acc ELSE FoldAdd(Tail(s), FAdd(acc, Head(s)))

\* Series.sum(): skipna=True, the sum of no values is 0.0
SeriesSum(s) == FoldAdd(SelectSeq(s, LAMBDA x : ~IsNaN(x)), FromInt(0))

\* Series.min() / Series.max(): skipna=True, nan when nothing is left
SeriesMin(s) ==
    LET vals == {x \in Range(s) : ~IsNaN(x)}
    IN  IF vals = {} THEN NaN
        ELSE CHOOSE m \in vals : \A x \in vals : ~FLt(x, m)

SeriesMax(s) ==
    LET vals == {x \in Range(s) : ~IsNaN(x)}
    IN  IF vals = {} THEN NaN
        ELSE CHOOSE m \in vals : \A x \in vals : ~FLt(m, x)

\* Series.clip(lower, upper) with lower <= upper: nan stays nan
ClipValue(x, lower, upper) ==
    IF IsNaN(x) THEN NaN
    ELSE IF FLt(x, lower) THEN lower
    ELSE IF FLt(upper, x) THEN upper
    ELSE x

SeriesClip(s, lower, upper) == Series([i \in DOMAIN s |-> ClipValue(s[i], lower, upper)], Len(s))

\* np.log10 on the market caps the model draws: exact powers of ten
RECURSIVE Log10(_)
Log10(x) == IF x < 10 THEN 0 ELSE 1 + Log10(x \div 10)

\* np.isclose(a, b) with numpy's defaults rtol=1e-05, atol=1e-08
IsClose(a, b) ==
    FLe(FAbs(FSub(a, b)), FAdd(Num(1, 100000000), FMul(Num(1, 100000), FAbs(b))))

(***************************************************************************)
(* SpaceIndexWeighting: the normalizers (pure functions of a Series).      *)
(***************************************************************************)
\* market_caps.replace(0, np.nan) followed by np.log10
LogCaps(market_caps) ==
    Series([i \in DOMAIN market_caps |->
        IF market_caps[i] = 0 THEN NaN ELSE FromInt(Log10(market_caps[i]))], Len(market_caps))

\* Mutant of MinMaxScale: the difference to the minimum is not divided by
\* the range
MinMaxScale_NoRange(x, min_val, max_val) == FMul(FSub(x, min_val), FromInt(100))

MinMaxScale(x, min_val, max_val) ==
    FMul(FDiv(FSub(x, min_val), FSub(max_val, min_val)), FromInt(100))

FillNa0(x) == IF IsNaN(x) THEN FromInt(0) ELSE x

normalize_market_cap(market_caps) ==
    LET log_caps == LogCaps(market_caps)
        min_val == SeriesMin(log_caps)
        max_val == SeriesMax(log_caps)
    IN  IF FEq(max_val, min_val)
        THEN Series([i \in DOMAIN market_caps |-> FromInt(50)], Len(market_caps))
        ELSE Series([i \in DOMAIN market_caps |->
                 FillNa0(MinMaxScale(log_caps[i], min_val, max_val))], Len(market_caps))

GrowthLower == FromInt(-50)

GrowthUpper == FromInt(200)

\* Mutant of ClipGrowth: the rates are not clipped
ClipGrowth_Unclipped(growth_rates) ==
    Series([i \in DOMAIN growth_rates |-> FromInt(growth_rates[i])], Len(growth_rates))

ClipGrowth(growth_rates) ==
    SeriesClip(Series([i \in DOMAIN growth_rates |-> FromInt(growth_rates[i])],
                      Len(growth_rates)),
               GrowthLower, GrowthUpper)

\* Mutant of normalize_growth: no branch for max_val == min_val
normalize_growth_Unguarded(growth_rates) ==
    LET clipped == ClipGrowth(growth_rates)
        min_val == SeriesMin(clipped)
        max_val == SeriesMax(clipped)
    IN  Series([i \in DOMAIN growth_rates |->
                   MinMaxScale(clipped[i], min_val, max_val)], Len(growth_rates))

normalize_growth(growth_rates) ==
    LET clipped == ClipGrowth(growth_rates)
        min_val == SeriesMin(clipped)
        max_val == SeriesMax(clipped)
    IN  IF FEq(max_val, min_val)
        THEN Series([i \in DOMAIN growth_rates |-> FromInt(50)], Len(growth_rates))
        ELSE Series([i \in DOMAIN growth_rates |->
                 MinMaxScale(clipped[i], min_val, max_val)], Len(growth_rates))

(***************************************************************************)
(* SpaceIndexWeighting.calculate_weights.  self is the instance's fields,  *)
(* companies the input table: a sequence of rows                           *)
(* [ticker, name, market_cap, space_revenue_pct, revenue_growth_rate,      *)
(*  segments].                                                             *)
(***************************************************************************)
Column(companies, col) == Series([i \in DOMAIN companies |-> companies[i][col]], Len(companies))

\* Mutant of RawScores: the exposure of a candidate classified with low
\* confidence is not counted
RawScores_ConfidenceScaled(self, companies) ==
    LET norm_market_cap == normalize_market_cap(Column(companies, "market_cap"))
        norm_growth == normalize_growth(Column(companies, "revenue_growth_rate"))
    IN  Series([i \in DOMAIN companies |->
            FAdd(FAdd(FMul(IF companies[i].confidence = "low" THEN FromInt(0)
                           ELSE FromInt(companies[i].space_revenue_pct),
                           self.w_space_rev),
                      FMul(norm_market_cap[i], self.w_market_cap)),
                 FMul(norm_growth[i], self.w_growth))], Len(companies))

RawScores(self, companies) ==
    LET norm_space_rev == Column(companies, "space_revenue_pct")
        norm_market_cap == normalize_market_cap(Column(companies, "market_cap"))
        norm_growth == normalize_growth(Column(companies, "revenue_growth_rate"))
    IN  Series([i \in DOMAIN companies |->
            FAdd(FAdd(FMul(FromInt(norm_space_rev[i]), self.w_space_rev),
                      FMul(norm_market_cap[i], self.w_market_cap)),
                 FMul(norm_growth[i], self.w_growth))], Len(companies))

\* Mutant of UnconstrainedWeights: the raw scores are divided by their
\* maximum, not by their sum
UnconstrainedWeights_ByMax(raw_scores) ==
    LET top == SeriesMax(raw_scores)
    IN  Series([i \in DOMAIN raw_scores |-> FDiv(raw_scores[i], top)], Len(raw_scores))

\* weights = raw_scores / raw_scores.sum()
UnconstrainedWeights(raw_scores) ==
    LET total == SeriesSum(raw_scores)
    IN  Series([i \in DOMAIN raw_scores |-> FDiv(raw_scores[i], total)], Len(raw_scores))

\* Mutant of ClippedWeights: a weight above the maximum is set to the
\* minimum
ClippedWeights_WrongBound(self, weights) ==
    Series([i \in DOMAIN weights |->
               IF FLt(self.max_weight, weights[i]) THEN self.min_weight
               ELSE ClipValue(weights[i], self.min_weight, self.max_weight)],
           Len(weights))

\* Mutant of ClippedWeights: only the maximum is applied
ClippedWeights_UpperOnly(self, weights) ==
    Series([i \in DOMAIN weights |->
               IF FLt(self.max_weight, weights[i]) THEN self.max_weight ELSE weights[i]],
           Len(weights))

\* Mutant of ClippedWeights: the position bounds are not applied
ClippedWeights_NoClip(self, weights) == weights

\* weights = weights.clip(lower=self.min_weight, upper=self.max_weight)
ClippedWeights(self, weights) == SeriesClip(weights, self.min_weight, self.max_weight)

\* Mutant of Renormalize: the clipped weights are returned as they are
Renormalize_Skipped(weights) == weights

\* weights = weights / weights.sum()
Renormalize(weights) ==
    LET total == SeriesSum(weights)
    IN  Series([i \in DOMAIN weights |-> FDiv(weights[i], total)], Len(weights))

FinalWeights(self, raw_scores) ==
    Renormalize(ClippedWeights(self, UnconstrainedWeights(raw_scores)))

\* Mutant of IndexConstituent: the name is not taken from the row but left
\* empty, the default of row.get
IndexConstituent_NameDropped(row, raw_score, weight) ==
    [ticker |-> row.ticker,
     name |-> <<>>,
     market_cap |-> row.market_cap,
     space_revenue_pct |-> row.space_revenue_pct,
     revenue_growth_rate |-> row.revenue_growth_rate,
     raw_score |-> raw_score,
     weight |-> weight,
     segments |-> row.segments]

\* Mutant of IndexConstituent: the score stored is derived from the final
\* weight (weight * 100)
IndexConstituent_ScoreFromWeight(row, raw_score, weight) ==
    [ticker |-> row.ticker,
     name |-> row.name,
     market_cap |-> row.market_cap,
     space_revenue_pct |-> row.space_revenue_pct,
     revenue_growth_rate |-> row.revenue_growth_rate,
     raw_score |-> FMul(weight, FromInt(100)),
     weight |-> weight,
     segments |-> row.segments]

IndexConstituent(row, raw_score, weight) ==
    [ticker |-> row.ticker,
     name |-> row.name,
     market_cap |-> row.market_cap,
     space_revenue_pct |-> row.space_revenue_pct,
     revenue_growth_rate |-> row.revenue_growth_rate,
     raw_score |-> raw_score,
     weight |-> weight,
     segments |-> row.segments]

Reverse(s) == Series([i \in DOMAIN s |-> s[Len(s) + 1 - i]], Len(s))

\* Insert x into the ascending list s behind every element it is not less
\* than: the stable insertion list.sort performs on short lists, which
\* compares with < only.
RECURSIVE InsertAscending(_, _)
InsertAscending(s, x) ==
    IF s = <<>> THEN <<x>>
    ELSE LET last == s[Len(s)]
         IN  IF FLt(x.weight, last.weight)
             THEN Append(InsertAscending(SubSeq(s, 1, Len(s) - 1), x), last)
             ELSE Append(s, x)

RECURSIVE SortAscending(_)
SortAscending(s) ==
    IF s = <<>> THEN <<>>
    ELSE InsertAscending(SortAscending(SubSeq(s, 1, Len(s) - 1)), s[Len(s)])

\* Mutant of SortByWeightDescending: an ascending sort reversed afterwards,
\* which is descending but turns the order of equal weights around
SortByWeightDescending_Unstable(constituents) == Reverse(SortAscending(constituents))

\* constituents.sort(key=lambda x: x.weight, reverse=True): list.sort
\* reverses the list, sorts it ascending and stable, and reverses it again
SortByWeightDescending(constituents) == Reverse(SortAscending(Reverse(constituents)))

calculate_weights(self, companies) ==
    IF Len(companies) = 0 THEN <<>>
    ELSE LET raw_scores == RawScores(self, companies)
             weights == FinalWeights(self, raw_scores)
         IN  SortByWeightDescending(
                 Series([i \in DOMAIN companies |->
                     IndexConstituent(companies[i], raw_scores[i], weights[i])], Len(companies)))

\* Mutant of calculate_weights_companies: the rows of the caller's table are
\* reordered in place
calculate_weights_companies_Reordered(self, companies) == Reverse(companies)

\* The caller's table after calculate_weights returned: the method reads
\* the columns of df, a copy of the table, and assigns to neither
calculate_weights_companies(self, companies) == companies

\* Mutant of calculate_weights_self: the method widens self.max_weight to
\* 1/n when n candidates cannot fill the index under it, and keeps it
calculate_weights_self_Relaxing(self, companies) ==
    IF Len(companies) = 0 THEN self
    ELSE LET even == Num(1, Len(companies))
         IN  [self EXCEPT !.max_weight = IF FLt(@, even) THEN even ELSE @]

\* The instance's fields after calculate_weights returned: the method reads
\* self.w_*, self.max_weight and self.min_weight and assigns none of them
\* (it works on df, a copy of the table)
calculate_weights_self(self, companies) == self

(***************************************************************************)
(* SpaceIndexWeighting.summary_stats.  Python's builtin sum, max and min   *)
(* do not skip nan.                                                        *)
(***************************************************************************)
PySum(s) == FoldAdd(s, FromInt(0))

RECURSIVE PyMax(_, _)
PyMax(s, m) ==
    IF s = <<>> THEN m
    ELSE PyMax(Tail(s), IF FLt(m, Head(s)) THEN Head(s) ELSE m)

RECURSIVE PyMin(_, _)
PyMin(s, m) ==
    IF s = <<>> THEN m
    ELSE PyMin(Tail(s), IF FLt(Head(s), m) THEN Head(s) ELSE m)

EmptyDict == <<>>

\* Mutant of summary_stats: no early return for an empty list
summary_stats_Unguarded(constituents) ==
    LET w == Series([i \in DOMAIN constituents |-> constituents[i].weight], Len(constituents))
    IN  [num_constituents |-> Len(constituents),
         total_weight |-> PySum(w)]

summary_stats(constituents) ==
    IF constituents = <<>> THEN EmptyDict
    ELSE LET w == Series([i \in DOMAIN constituents |-> constituents[i].weight], Len(constituents))
             weighted(col) ==
                 Series([i \in DOMAIN constituents |->
                            FMul(FromInt(constituents[i][col]), constituents[i].weight)],
                        Len(constituents))
         IN  [num_constituents |-> Len(constituents),
              total_weight |-> PySum(w),
              weighted_avg_market_cap |-> PySum(weighted("market_cap")),
              weighted_avg_space_rev_pct |-> PySum(weighted("space_revenue_pct")),
              weighted_avg_growth |-> PySum(weighted("revenue_growth_rate")),
              max_weight |-> PyMax(Tail(w), Head(w)),
              min_weight |-> PyMin(Tail(w), Head(w))]

\* The list passed to summary_stats after it returned: the generator
\* expressions only read the constituents
summary_stats_constituents(constituents) == constituents

(***************************************************************************)
(* The state machine: one run of a caller that constructs the instance and *)
(* makes one call of its API (followed, as in main(), by summary_stats on  *)
(* the list calculate_weights returned).                                   *)
(* obj holds the fields __init__ has assigned to the instance (none before *)
(* it ran or when it raised); call is the last call made, exc what it      *)
(* raised; companies and series are the inputs of that call, constituents, *)
(* scores and stats the values returned; history lists every              *)
(* calculate_weights invocation made on the instance, as the table passed  *)
(* and the list returned.                                                  *)
(***************************************************************************)
VARIABLES obj, call, args, exc, companies, series, constituents, scores, stats,
          history

\* Concurrent callers of calculate_weights: threads holds each caller's
\* position in the method and its local variables, heap the list objects
\* the calls have created (a list is referred to by its index in heap).
VARIABLES threads, heap

\* The index builders' growth loop (growth), the classifier's calls (parsed,
\* batch) and a request of the market-data client (request).
VARIABLES growth, parsed, batch, request

weightingVars ==
    <<obj, call, args, exc, companies, series, constituents, scores, stats, history>>

callerVars == <<threads, heap>>

upstreamVars == <<growth, parsed, batch, request>>

vars == <<weightingVars, callerVars, upstreamVars>>

\* Bounds of the model: rows of an input table, length of a Series
MaxCompanies == 3

MaxSeries == 3

\* calculate_weights invocations on one instance in the repeated-call runs
MaxCalls == 3

\* Constructor arguments of the weighting runs: factor weights summing to
\* 1.0 and to 0.9, and position bounds (max, min) that are infeasible from
\* above (max*n < 1), feasible for n >= 2, and infeasible from below
\* (min*n > 1)
WeightTriples ==
    { <<Num(4, 10), Num(3, 10), Num(3, 10)>>,
      <<FromInt(1), FromInt(0), FromInt(0)>>,
      <<Num(3, 10), Num(3, 10), Num(3, 10)>> }

BoundPairs ==
    { <<Num(15, 100), Num(1, 100)>>,
      <<Num(7, 10), Num(1, 20)>>,
      <<Num(9, 10), Num(6, 10)>> }

Args(w, b) ==
    [space_revenue_weight |-> w[1], market_cap_weight |-> w[2],
     growth_weight |-> w[3], max_position_size |-> b[1],
     min_position_size |-> b[2]]

CtorArgs == { Args(w, b) : w \in WeightTriples, b \in BoundPairs }

\* Constructor arguments of the construction runs: every triple of these
\* factor weights, whose sums lie at, near (1.000001) and away from 1.0
\* (negative weights included), and position bounds inside and outside
\* (0, 1)
WeightVals ==
    { Num(-1, 4), FromInt(0), Num(3, 10), Num(4, 10), Num(400001, 1000000),
      FromInt(1), Num(3, 2) }

AnyBoundPairs == BoundPairs \cup { <<Num(3, 2), Num(1, 100)>>, <<Num(15, 100), FromInt(0)>> }

AnyCtorArgs ==
    { Args(w, b) : w \in WeightVals \X WeightVals \X WeightVals, b \in AnyBoundPairs }

\* Values of a CompanyRecord in a table: exposure in [0,100], market cap (a
\* power of ten; zero caps are drawn in CapSeriesVals below), growth rate
\* any percentage
ExposureVals == {0, 100}

CapVals == {10, 1000}

GrowthVals == {-50, 500}

\* The name and the segment tags of row i: free text the engine passes on
CompanyName(i) == <<"Company", i>>

SegmentsOf(i) == IF i % 2 = 1 THEN "Launch" ELSE "Satellites"

\* The confidence label the classification attached to row i (a column of
\* the tables the index builders pass on)
ConfidenceOf(i) == IF i % 3 = 1 THEN "high" ELSE IF i % 3 = 2 THEN "medium" ELSE "low"

Row(i, e, c, g) ==
    [ticker |-> i, name |-> CompanyName(i), market_cap |-> c, space_revenue_pct |-> e,
     revenue_growth_rate |-> g, segments |-> SegmentsOf(i),
     confidence |-> ConfidenceOf(i)]

\* The three-candidate table A(100, 1e9, 50), B(50, 1e11, 10), C(10, 1e7, 0),
\* with the market caps in units of 100,000 dollars: log10 of every cap is
\* lower by 5, which the min-max rescaling of normalize_market_cap cancels
ExampleTable ==
    << Row(1, 100, 10000, 50), Row(2, 50, 1000000, 10), Row(3, 10, 100, 0) >>

Tables ==
    UNION { { [i \in 1..n |-> Row(i, f[i][1], f[i][2], f[i][3])] :
                f \in [1..n -> ExposureVals \X CapVals \X GrowthVals] } :
            n \in 0..MaxCompanies }
        \cup { ExampleTable }

\* Tables of the repeated-call runs: up to two rows that differ in exposure
RepeatTables ==
    { t \in Tables :
        /\ Len(t) <= 2
        /\ \A i \in DOMAIN t : t[i].market_cap = 10 /\ t[i].revenue_growth_rate = -50 }

\* Series handed to the normalizers when they are called on their own
CapSeriesVals == {0, 1, 10, 1000}

GrowthSeriesVals == {-100, -50, 75, 200, 201, 500}

CapSeries == UNION { [1..n -> CapSeriesVals] : n \in 1..MaxSeries }

GrowthSeries == UNION { [1..n -> GrowthSeriesVals] : n \in 1..MaxSeries }

NoFields == <<>>

NoArgs == <<>>

Constructed == DOMAIN obj # {}

\* The callers of the concurrent runs
Callers == {"caller1", "caller2"}

IdleThread ==
    [pc |-> "idle", self |-> NoFields, companies |-> <<>>, raw_scores |-> <<>>,
     weights |-> <<>>, ref |-> 0]

\* No financials fetched yet
NoOutcome == [raised |-> FALSE, financials |-> <<>>]

NoLoop ==
    [script |-> "none", tickers |-> <<>>, idx |-> 0, growth_data |-> <<>>,
     fetched |-> NoOutcome]

NoClassification == <<>>

NoParse ==
    [call |-> "none", response_text |-> <<>>, exc |-> "None",
     result |-> NoClassification]

NoBatch ==
    [call |-> "none", outcomes |-> <<>>, verbose |-> FALSE, results |-> <<>>]

NoRequest ==
    [pc |-> "idle", caller |-> "none", attempt_number |-> 0, log |-> <<>>,
     result |-> "none"]

Init ==
    /\ obj = NoFields
    /\ call = "none"
    /\ args = NoArgs
    /\ exc = "None"
    /\ companies = <<>>
    /\ series = <<>>
    /\ constituents = <<>>
    /\ scores = <<>>
    /\ stats = EmptyDict
    /\ history = <<>>
    /\ threads = [c \in Callers |-> IdleThread]
    /\ heap = <<>>
    /\ growth = NoLoop
    /\ parsed = NoParse
    /\ batch = NoBatch
    /\ request = NoRequest

\* SpaceIndexWeighting.__init__: the fields the constructor leaves assigned
InitFields(a) ==
    LET total == FAdd(FAdd(a.space_revenue_weight, a.market_cap_weight),
                      a.growth_weight)
    IN  IF ~IsClose(total, FromInt(1))
        THEN NoFields
        ELSE [w_space_rev |-> a.space_revenue_weight,
              w_market_cap |-> a.market_cap_weight,
              w_growth |-> a.growth_weight,
              max_weight |-> a.max_position_size,
              min_weight |-> a.min_position_size]

\* SpaceIndexWeighting.__init__: what the constructor raises
InitRaises(a) ==
    LET total == FAdd(FAdd(a.space_revenue_weight, a.market_cap_weight),
                      a.growth_weight)
    IN  IF ~IsClose(total, FromInt(1)) THEN "ValueError" ELSE "None"

\* weighting = SpaceIndexWeighting(**a) for some a in argset: a ValueError
\* ends the run
ConstructWith(argset) ==
    /\ call = "none"
    /\ \E a \in argset :
        /\ call' = "__init__"
        /\ args' = a
        /\ obj' = InitFields(a)
        /\ exc' = InitRaises(a)
    /\ UNCHANGED <<companies, series, constituents, scores, stats, history>>
    /\ UNCHANGED <<callerVars, upstreamVars>>

Construct == ConstructWith(CtorArgs)

ConstructAny == ConstructWith(AnyCtorArgs)

\* scores = weighting.normalize_market_cap(market_caps)
NormalizeMarketCap ==
    /\ Constructed
    /\ call = "__init__"
    /\ \E market_caps \in CapSeries :
        /\ call' = "normalize_market_cap"
        /\ series' = market_caps
        /\ scores' = normalize_market_cap(market_caps)
    /\ UNCHANGED <<obj, args, exc, companies, constituents, stats, history>>
    /\ UNCHANGED <<callerVars, upstreamVars>>

\* scores = weighting.normalize_growth(growth_rates)
NormalizeGrowth ==
    /\ Constructed
    /\ call = "__init__"
    /\ \E growth_rates \in GrowthSeries :
        /\ call' = "normalize_growth"
        /\ series' = growth_rates
        /\ scores' = normalize_growth(growth_rates)
    /\ UNCHANGED <<obj, args, exc, companies, constituents, stats, history>>
    /\ UNCHANGED <<callerVars, upstreamVars>>

\* constituents = weighting.calculate_weights(table)
CalculateWeights ==
    /\ Constructed
    /\ call = "__init__"
    /\ \E table \in Tables :
        /\ call' = "calculate_weights"
        /\ companies' = calculate_weights_companies(obj, table)
        /\ constituents' = calculate_weights(obj, table)
        /\ obj' = calculate_weights_self(obj, table)
        /\ history' = Append(history, [companies |-> table,
                                       constituents |-> constituents'])
    /\ UNCHANGED <<args, exc, series, scores, stats>>
    /\ UNCHANGED <<callerVars, upstreamVars>>

\* constituents = weighting.calculate_weights(table), on an instance that may
\* have served earlier calculate_weights calls
Recalculate ==
    /\ Constructed
    /\ call \in {"__init__", "calculate_weights"}
    /\ Len(history) < MaxCalls
    /\ \E table \in RepeatTables :
        /\ call' = "calculate_weights"
        /\ companies' = calculate_weights_companies(obj, table)
        /\ constituents' = calculate_weights(obj, table)
        /\ obj' = calculate_weights_self(obj, table)
        /\ history' = Append(history, [companies |-> table,
                                       constituents |-> constituents'])
    /\ UNCHANGED <<args, exc, series, scores, stats>>
    /\ UNCHANGED <<callerVars, upstreamVars>>

\* stats = weighting.summary_stats(constituents)
SummaryStats ==
    /\ call = "calculate_weights"
    /\ call' = "summary_stats"
    /\ stats' = summary_stats(constituents)
    /\ constituents' = summary_stats_constituents(constituents)
    /\ UNCHANGED <<obj, args, exc, companies, series, scores, history>>
    /\ UNCHANGED <<callerVars, upstreamVars>>

Next ==
    \/ Construct
    \/ NormalizeMarketCap
    \/ NormalizeGrowth
    \/ CalculateWeights
    \/ SummaryStats

Spec == Init /\ [][Next]_vars

\* The construction runs: __init__ alone, over the wider argument set
NextConfig == ConstructAny

SpecConfig == Init /\ [][NextConfig]_vars

\* The repeated-call runs: one instance, up to MaxCalls calculate_weights
\* calls
NextRepeat ==
    \/ Construct
    \/ Recalculate

SpecRepeat == Init /\ [][NextRepeat]_vars

(***************************************************************************)
(* Concurrent calls of calculate_weights.  Each caller runs the method     *)
(* step by step on an instance and a table of its own choice; the steps of *)
(* the callers interleave freely.  The locals of a call (the table copy,   *)
(* raw_scores, weights, the reference to its list) are the caller's; the   *)
(* instance it reads and the heap of list objects are shared.              *)
(***************************************************************************)
\* Tables the concurrent callers pass: the empty table and the two-row
\* tables of the repeated-call runs
ConcurrentTables == { t \in RepeatTables : Len(t) # 1 }

\* SpaceIndexWeighting() with the default arguments: a second instance
DefaultInstance ==
    InitFields(Args(<<Num(4, 10), Num(3, 10), Num(3, 10)>>, <<Num(15, 100), Num(1, 100)>>))

\* Mutant of NewList: every call uses one and the same list object
NewList_Shared(h) == 1

\* constituents = []: a new list object, behind the ones that exist
NewList(h) == Len(h) + 1

\* constituents.append(...) for each of items, on the list ref refers to
ListAppendAll(h, ref, items) ==
    IF ref > Len(h) THEN Append(h, items) ELSE [h EXCEPT ![ref] = @ \o items]

\* calculate_weights is entered with a table; an empty table returns a new
\* empty list at once
Call(c) ==
    /\ Constructed
    /\ threads[c].pc = "idle"
    /\ \E table \in ConcurrentTables, self \in {obj, DefaultInstance} :
        IF Len(table) = 0
        THEN /\ threads' = [threads EXCEPT ![c] =
                     [@ EXCEPT !.pc = "returned", !.self = self, !.companies = table,
                               !.ref = NewList(heap)]]
             /\ heap' = ListAppendAll(heap, NewList(heap), <<>>)
        ELSE /\ threads' = [threads EXCEPT ![c] =
                     [@ EXCEPT !.pc = "called", !.self = self, !.companies = table]]
             /\ heap' = heap
    /\ UNCHANGED <<weightingVars, upstreamVars>>

\* the factors are normalized and blended into raw_scores
Score(c) ==
    /\ threads[c].pc = "called"
    /\ threads' = [threads EXCEPT ![c] =
            [@ EXCEPT !.pc = "scored",
                      !.raw_scores = RawScores(threads[c].self, threads[c].companies)]]
    /\ UNCHANGED <<weightingVars, heap, upstreamVars>>

\* the raw scores are turned into weights, clipped and renormalized
Weigh(c) ==
    /\ threads[c].pc = "scored"
    /\ threads' = [threads EXCEPT ![c] =
            [@ EXCEPT !.pc = "weighted",
                      !.weights = FinalWeights(threads[c].self, threads[c].raw_scores)]]
    /\ UNCHANGED <<weightingVars, heap, upstreamVars>>

\* a list is created and one IndexConstituent per row appended to it
Build(c) ==
    /\ threads[c].pc = "weighted"
    /\ LET t == threads[c]
           ref == NewList(heap)
           items == Series([i \in DOMAIN t.companies |->
                        IndexConstituent(t.companies[i], t.raw_scores[i], t.weights[i])],
                           Len(t.companies))
       IN  /\ threads' = [threads EXCEPT ![c] = [@ EXCEPT !.pc = "built", !.ref = ref]]
           /\ heap' = ListAppendAll(heap, ref, items)
    /\ UNCHANGED <<weightingVars, upstreamVars>>

\* the list is sorted in place and returned
SortAndReturn(c) ==
    /\ threads[c].pc = "built"
    /\ threads' = [threads EXCEPT ![c] = [@ EXCEPT !.pc = "returned"]]
    /\ heap' = [heap EXCEPT ![threads[c].ref] = SortByWeightDescending(@)]
    /\ UNCHANGED <<weightingVars, upstreamVars>>

NextConcurrent ==
    \/ Construct
    \/ \E c \in Callers : Call(c)
    \/ \E c \in Callers : Score(c)
    \/ \E c \in Callers : Weigh(c)
    \/ \E c \in Callers : Build(c)
    \/ \E c \in Callers : SortAndReturn(c)

SpecConcurrent == Init /\ [][NextConcurrent]_vars

(***************************************************************************)
(* The growth loop of the index builders (build_index.py and               *)
(* expand_universe.py): for every company of the universe the annual       *)
(* financials are fetched and one growth rate is appended to growth_data.  *)
(* A period of the financials is [fiscal_year, revenue]; 0 stands for a    *)
(* value that is missing (None) or zero, both of which Python treats as    *)
(* false.                                                                  *)
(***************************************************************************)
\* Companies of one run of the loop
MaxUniverse == 2

\* limit=3 of get_financials
FinancialsLimit == 3

\* classified_companies of build_index.py, and tickers as the
\* classification of expand_universe.py may deliver them
UniverseTickers(script) ==
    IF script = "build_index"
    THEN <<"ASTS", "RKLB", "SPCE", "IRDM", "GSAT">>
    ELSE <<"LUNR", "PL", "BKSY", "RDW", "SPIR">>

\* The estimate substituted for a growth rate that cannot be computed
EstimatedGrowth(script, ticker) ==
    IF script = "build_index"
    THEN CASE ticker = "ASTS" -> FromInt(150)
           [] ticker = "RKLB" -> FromInt(50)
           [] ticker = "SPCE" -> FromInt(-20)
           [] ticker = "IRDM" -> FromInt(5)
           [] ticker = "GSAT" -> FromInt(15)
           [] OTHER -> FromInt(10)
    ELSE FromInt(20)

Period(y, r) == [fiscal_year |-> y, revenue |-> r]

PeriodVals ==
    { Period(2022, 100), Period(2023, 150), Period(2024, 300), Period(2024, 0),
      Period(0, 150) }

\* What get_financials may return: up to FinancialsLimit periods, no fiscal
\* year twice, in any order
Financials ==
    { f \in UNION { [1..n -> PeriodVals] : n \in 0..FinancialsLimit } :
        \A i, j \in DOMAIN f :
            (i # j /\ f[i].fiscal_year # 0) => f[i].fiscal_year # f[j].fiscal_year }

\* One fetch: get_financials raised, or returned financials
FetchOutcomes ==
    { [raised |-> TRUE, financials |-> <<>>] }
        \cup { [raised |-> FALSE, financials |-> f] : f \in Financials }

\* revenues: the periods with a revenue and a fiscal year
Revenues(financials) ==
    LET kept == SelectSeq(financials, LAMBDA p : p.revenue # 0 /\ p.fiscal_year # 0)
    IN  Series([i \in DOMAIN kept |->
                   [year |-> kept[i].fiscal_year, revenue |-> kept[i].revenue]], Len(kept))

RECURSIVE InsertByYear(_, _)
InsertByYear(s, x) ==
    IF s = <<>> THEN <<x>>
    ELSE LET last == s[Len(s)]
         IN  IF x.year < last.year
             THEN Append(InsertByYear(SubSeq(s, 1, Len(s) - 1), x), last)
             ELSE Append(s, x)

\* Mutant of SortByYear: the revenues stay in the order they were fetched in
SortByYear_Unsorted(revenues) == revenues

\* sorted(revenues, key=lambda x: x['year'])
RECURSIVE SortByYear(_)
SortByYear(revenues) ==
    IF revenues = <<>> THEN <<>>
    ELSE InsertByYear(SortByYear(SubSeq(revenues, 1, Len(revenues) - 1)),
                      revenues[Len(revenues)])

\* ((latest - previous) / previous) * 100 if previous != 0 else 0
GrowthYoY(latest, previous) ==
    IF previous # 0
    THEN FMul(FDiv(FromInt(latest - previous), FromInt(previous)), FromInt(100))
    ELSE FromInt(0)

GrowthEntry(ticker, rate) == [ticker |-> ticker, revenue_growth_rate |-> rate]

\* The entries one pass of the loop body appends to growth_data
GrowthEntries(script, ticker, outcome) ==
    IF outcome.raised
    THEN << GrowthEntry(ticker, EstimatedGrowth(script, ticker)) >>
    ELSE IF Len(outcome.financials) >= 2
    THEN LET revenues == SortByYear(Revenues(outcome.financials))
         IN  IF Len(revenues) >= 2
             THEN << GrowthEntry(ticker, GrowthYoY(revenues[Len(revenues)].revenue,
                                                   revenues[Len(revenues) - 1].revenue)) >>
             ELSE << GrowthEntry(ticker, EstimatedGrowth(script, ticker)) >>
    ELSE << GrowthEntry(ticker, EstimatedGrowth(script, ticker)) >>

\* growth_data = [] before the loop over the companies of one builder
StartGrowthLoop ==
    /\ growth.script = "none"
    /\ \E script \in {"build_index", "expand_universe"}, n \in 1..MaxUniverse :
        growth' = [NoLoop EXCEPT !.script = script,
                                 !.tickers = SubSeq(UniverseTickers(script), 1, n)]
    /\ UNCHANGED <<weightingVars, callerVars, parsed, batch, request>>

\* One pass of the loop body, for the next company
GrowthIteration ==
    /\ growth.script # "none"
    /\ growth.idx < Len(growth.tickers)
    /\ \E outcome \in FetchOutcomes :
        growth' = [growth EXCEPT
                      !.idx = @ + 1,
                      !.growth_data = @ \o GrowthEntries(growth.script,
                                                         growth.tickers[growth.idx + 1],
                                                         outcome),
                      !.fetched = outcome]
    /\ UNCHANGED <<weightingVars, callerVars, parsed, batch, request>>

NextGrowth ==
    \/ StartGrowthLoop
    \/ GrowthIteration

SpecGrowth == Init /\ [][NextGrowth]_vars

(***************************************************************************)
(* SpaceCompanyClassifier (ai_classifier.py).  A response text is a        *)
(* sequence of tokens: prose, an opening brace, a closing brace, or one    *)
(* member "key": value of a JSON object (val is the JSON literal).         *)
(***************************************************************************)
\* Tokens of a response text, companies of a batch
MaxTokens == 4

MaxBatch == 3

Token(t, key, val) == [t |-> t, key |-> key, val |-> val]

Prose == Token("prose", "", "")

LBrace == Token("{", "", "")

RBrace == Token("}", "", "")

Member(key, val) == Token("member", key, val)

Members ==
    { Member("is_space_related", "true"),
      Member("space_revenue_pct", "50"),
      Member("space_revenue_pct", "\"45\""),
      Member("space_revenue_pct", "\"n/a\""),
      Member("space_revenue_pct", "null"),
      Member("segments", "[\"launch\"]"),
      Member("segments", "null") }

Tokens == {Prose, LBrace, RBrace} \cup Members

ResponseTexts == UNION { [1..n -> Tokens] : n \in 0..MaxTokens }

\* str.find / str.rfind: the 0-based index of the first / last tok, or -1
Find(text, tok) ==
    IF \E i \in DOMAIN text : text[i] = tok
    THEN (CHOOSE i \in DOMAIN text : text[i] = tok /\ \A j \in 1..(i - 1) : text[j] # tok) - 1
    ELSE -1

RFind(text, tok) ==
    IF \E i \in DOMAIN text : text[i] = tok
    THEN (CHOOSE i \in DOMAIN text :
              text[i] = tok /\ \A j \in (i + 1)..Len(text) : text[j] # tok) - 1
    ELSE -1

\* text[start:end] with Python's treatment of negative and too large indices
PySlice(text, start, end) ==
    LET n == Len(text)
        bound(k) == IF k < 0 THEN (IF n + k < 0 THEN 0 ELSE n + k)
                    ELSE IF k > n THEN n ELSE k
    IN  SubSeq(text, bound(start) + 1, bound(end))

\* json_str = response_text[start_idx:end_idx]
JsonStr(response_text) ==
    PySlice(response_text, Find(response_text, LBrace), RFind(response_text, RBrace) + 1)

\* json.loads(json_str) returns a dict: an object of members; anything else
\* raises JSONDecodeError
JsonValid(json_str) ==
    /\ Len(json_str) >= 2
    /\ json_str[1] = LBrace
    /\ json_str[Len(json_str)] = RBrace
    /\ \A i \in 2..(Len(json_str) - 1) : json_str[i] \in Members

\* data.get(key, default): the value of the last member with the key
JsonGet(json_str, key, default) ==
    LET at == {i \in DOMAIN json_str : json_str[i].t = "member" /\ json_str[i].key = key}
    IN  IF at = {} THEN default
        ELSE json_str[CHOOSE i \in at : \A j \in at : j <= i].val

\* float(v) of a JSON value: a number or a numeric string converts, another
\* string raises ValueError, None or a list raises TypeError
FloatRaises(val) ==
    CASE val \in {"0", "50", "\"45\""} -> "None"
      [] val = "\"n/a\"" -> "ValueError"
      [] OTHER -> "TypeError"

FloatValue(val) == IF val = "50" THEN 50 ELSE IF val = "\"45\"" THEN 45 ELSE 0

SpaceClassification(ticker, is_space, pct, confidence, segments, reasoning, raw) ==
    [ticker |-> ticker,
     is_space_related |-> is_space,
     space_revenue_pct |-> pct,
     confidence |-> confidence,
     segments |-> segments,
     reasoning |-> reasoning,
     raw_response |-> raw]

\* SpaceCompanyClassifier._parse_response: what it raises and returns
\* (company_name is passed through like ticker)
_parse_response(ticker, response_text) ==
    LET json_str == JsonStr(response_text)
        pct == JsonGet(json_str, "space_revenue_pct", "0")
        fallback == SpaceClassification(ticker, FALSE, 0, "low", "[]",
                                        "Error parsing AI response", response_text)
    IN  IF ~JsonValid(json_str)
        THEN [exc |-> "None", result |-> fallback]
        ELSE IF FloatRaises(pct) = "ValueError"
        THEN [exc |-> "None", result |-> fallback]
        ELSE IF FloatRaises(pct) = "TypeError"
        THEN [exc |-> "TypeError", result |-> NoClassification]
        ELSE [exc |-> "None",
              result |-> SpaceClassification(
                  ticker,
                  JsonGet(json_str, "is_space_related", "false") = "true",
                  FloatValue(pct),
                  JsonGet(json_str, "confidence", "low"),
                  JsonGet(json_str, "segments", "[]"),
                  JsonGet(json_str, "reasoning", ""),
                  response_text)]

\* classifier._parse_response(ticker, company_name, response_text); a
\* behaviour follows one call of the classifier
ParseResponse ==
    /\ parsed.call = "none"
    /\ batch.call = "none"
    /\ \E response_text \in ResponseTexts :
        LET r == _parse_response(1, response_text)
        IN  parsed' = [call |-> "_parse_response", response_text |-> response_text,
                       exc |-> r.exc, result |-> r.result]
    /\ UNCHANGED <<weightingVars, callerVars, growth, batch, request>>

\* What happens to one company of a batch: the API call of classify_company
\* raises, or it answers with a text that _parse_response is given
ApiAnswer(text) == [raised |-> FALSE, text |-> text]

BatchOutcomes ==
    { [raised |-> TRUE, text |-> <<>>],
      ApiAnswer(<<LBrace, Member("is_space_related", "true"),
                  Member("space_revenue_pct", "50"),
                  Member("segments", "[\"launch\"]"), RBrace>>),
      ApiAnswer(<<Prose>>),
      ApiAnswer(<<LBrace, Member("space_revenue_pct", "null"), RBrace>>),
      ApiAnswer(<<LBrace, Member("space_revenue_pct", "50"),
                  Member("segments", "null"), RBrace>>) }

\* SpaceCompanyClassifier.classify_company for company i
classify_company(i, outcome) ==
    IF outcome.raised THEN [exc |-> "APIError", result |-> NoClassification]
    ELSE _parse_response(i, outcome.text)

\* the progress line after a classification: ', '.join(result.segments)
\* raises TypeError when segments is None
PrintRaises(result) == result.segments = "null"

\* the result appended by the except branch of batch_classify
BatchFallback(i) == SpaceClassification(i, FALSE, 0, "low", "[]", "Error", <<>>)

\* What one pass of the loop of batch_classify appends to results
BatchAppends(i, outcome, verbose) ==
    LET r == classify_company(i, outcome)
    IN  IF r.exc # "None" THEN << BatchFallback(i) >>
        ELSE IF verbose /\ PrintRaises(r.result) THEN << r.result, BatchFallback(i) >>
        ELSE << r.result >>

RECURSIVE batch_classify(_, _, _)
batch_classify(outcomes, verbose, n) ==
    IF n = 0 THEN <<>>
    ELSE batch_classify(outcomes, verbose, n - 1) \o BatchAppends(n, outcomes[n], verbose)

\* results = classifier.batch_classify(companies, verbose)
BatchClassify ==
    /\ batch.call = "none"
    /\ parsed.call = "none"
    /\ \E n \in 0..MaxBatch, verbose \in BOOLEAN :
        \E outcomes \in [1..n -> BatchOutcomes] :
            batch' = [call |-> "batch_classify", outcomes |-> outcomes,
                      verbose |-> verbose,
                      results |-> batch_classify(outcomes, verbose, n)]
    /\ UNCHANGED <<weightingVars, callerVars, growth, parsed, request>>

NextClassifier ==
    \/ ParseResponse
    \/ BatchClassify

SpecClassifier == Init /\ [][NextClassifier]_vars

(***************************************************************************)
(* PolygonClient (polygon_client.py): one call that goes through           *)
(* _make_request, step by step.  request.log records what the call did:    *)
(* "sleep" for the rate-limit delay, the outcome of each session.get, and  *)
(* "wait" for the back-off between two attempts.                           *)
(***************************************************************************)
\* stop=stop_after_attempt(3)
StopAfterAttempt == 3

ClientCallers == {"_make_request", "get_ticker_details", "get_market_cap"}

\* An attempt fails when session.get, raise_for_status or response.json raises
FailedGets == {"ConnectionError", "HTTPError", "JSONDecodeError"}

GetOutcomes == FailedGets \cup {"200"}

\* what the JSON body of a successful response holds
Bodies == {"market_cap", "no market_cap", "no results"}

\* tenacity's stop condition, evaluated after a failed attempt
ShouldStop_OneMore(attempt_number) == attempt_number >= StopAfterAttempt + 1

ShouldStop(attempt_number) == attempt_number >= StopAfterAttempt

\* What the caller gets when _make_request returns the body
Returned(caller, body) ==
    IF caller = "get_market_cap"
    THEN (IF body = "market_cap" THEN "returned market_cap" ELSE "returned None")
    ELSE "returned dict"

\* What the caller gets when _make_request raises RetryError
Raised(caller) ==
    IF caller = "get_market_cap" THEN "returned None" ELSE "raised RetryError"

\* client.get_market_cap(ticker), client.get_ticker_details(ticker) or
\* client._make_request(endpoint): the first attempt begins
CallClient ==
    /\ request.pc = "idle"
    /\ \E caller \in ClientCallers :
        request' = [request EXCEPT !.pc = "sleep", !.caller = caller,
                                   !.attempt_number = 1]
    /\ UNCHANGED <<weightingVars, callerVars, growth, parsed, batch>>

\* time.sleep(self.rate_limit_delay)
RateLimitDelay ==
    /\ request.pc = "sleep"
    /\ request' = [request EXCEPT !.pc = "get", !.log = Append(@, "sleep")]
    /\ UNCHANGED <<weightingVars, callerVars, growth, parsed, batch>>

\* session.get, raise_for_status and response.json of one attempt, and
\* tenacity's decision after it
SessionGet ==
    /\ request.pc = "get"
    /\ \E outcome \in GetOutcomes, body \in Bodies :
        LET log == Append(request.log, outcome)
        IN  IF outcome = "200"
            THEN request' = [request EXCEPT !.pc = "done", !.log = log,
                                 !.result = Returned(request.caller, body)]
            ELSE IF ShouldStop(request.attempt_number)
            THEN request' = [request EXCEPT !.pc = "done", !.log = log,
                                 !.result = Raised(request.caller)]
            ELSE request' = [request EXCEPT !.pc = "wait", !.log = log]
    /\ UNCHANGED <<weightingVars, callerVars, growth, parsed, batch>>

\* wait_exponential(multiplier=1, min=2, max=10), then the next attempt
RetryWait ==
    /\ request.pc = "wait"
    /\ request' = [request EXCEPT !.pc = "sleep", !.log = Append(@, "wait"),
                                  !.attempt_number = @ + 1]
    /\ UNCHANGED <<weightingVars, callerVars, growth, parsed, batch>>

NextClient ==
    \/ CallClient
    \/ RateLimitDelay
    \/ SessionGet
    \/ RetryWait

\* A sleep, a back-off and an attempt each come to an end: session.get
\* returns or raises
SpecClient ==
    /\ Init
    /\ [][NextClient]_vars
    /\ WF_vars(RateLimitDelay)
    /\ WF_vars(SessionGet)
    /\ WF_vars(RetryWait)

(***************************************************************************)
(* Properties.                                                             *)
(***************************************************************************)
One == FromInt(1)

Zero == FromInt(0)

Fifty == FromInt(50)

\* a calculate_weights call on a non-empty table has returned
Weighted == call = "calculate_weights" /\ companies # <<>>

WeightOf(i) == constituents[i].weight

\* the sum of the returned weights, nan if any weight is nan
TotalWeight ==
    PySum(Series([i \in DOMAIN constituents |-> constituents[i].weight],
                 Len(constituents)))

\* the sum of the raw blended scores of the returned constituents
TotalRawScore ==
    PySum(Series([i \in DOMAIN constituents |-> constituents[i].raw_score],
                 Len(constituents)))

\* the position bounds can be met by n weights summing to 1
Feasible(n) ==
    /\ FLe(FMul(obj.min_weight, FromInt(n)), One)
    /\ FLe(One, FMul(obj.max_weight, FromInt(n)))

\* C1: for every non-empty candidate table and every accepted
\* configuration, the returned weights sum to 1.0 within 1e-6.
C1_WeightsSumToOne ==
    Weighted => FLe(FAbs(FSub(TotalWeight, One)), Num(1, 1000000))

\* C2 (checked under SpecConfig): a construction whose three factor weights
\* do not sum to 1.0 raises ValueError and leaves no field set; one whose
\* weights sum to 1.0 raises nothing and sets the five fields to its
\* arguments.
C2_SumNotOneRaises ==
    call = "__init__" =>
        LET total == FAdd(FAdd(args.space_revenue_weight, args.market_cap_weight),
                          args.growth_weight)
        IN  /\ total # One => exc = "ValueError" /\ ~Constructed
            /\ total = One =>
                   /\ exc = "None"
                   /\ Constructed
                   /\ obj.w_space_rev = args.space_revenue_weight
                   /\ obj.w_market_cap = args.market_cap_weight
                   /\ obj.w_growth = args.growth_weight
                   /\ obj.max_weight = args.max_position_size
                   /\ obj.min_weight = args.min_position_size

\* C3: when all candidates of a non-empty Series have the same market cap
\* (zero included), normalize_market_cap returns exactly 50.0 for each.
C3_IdenticalCapsScoreFifty ==
    (call = "normalize_market_cap" /\ \A i, j \in DOMAIN series : series[i] = series[j])
        => \A i \in DOMAIN scores : scores[i] = Fifty

\* the growth band of the specification, [-50, 200], on raw percentages
Band(g) == IF g < -50 THEN -50 ELSE IF g > 200 THEN 200 ELSE g

\* C4: when all candidates of a non-empty Series have the same growth rate,
\* or the same rate after clipping to [-50, 200], normalize_growth returns
\* exactly 50.0 for each (a finite score, so nothing was divided by zero).
C4_IdenticalGrowthScoresFifty ==
    (call = "normalize_growth"
        /\ \A i, j \in DOMAIN series : Band(series[i]) = Band(series[j]))
        => /\ Len(scores) = Len(series)
           /\ \A i \in DOMAIN scores : scores[i] = Fifty

\* C4 witness: rates that differ (201 and 500) but clip to the same value
\* were normalized to 50.0
C4_Witness ==
    /\ call = "normalize_growth"
    /\ Len(series) >= 2
    /\ \E i, j \in DOMAIN series : series[i] = 201 /\ series[j] = 500
    /\ \A i \in DOMAIN series : Band(series[i]) = 200
    /\ \A i \in DOMAIN scores : scores[i] = Fifty

\* C5: within one Series, every rate above 200 scores like the rate 200 and
\* every rate below -50 like the rate -50: candidates whose rates clip to
\* the same end of the band get the same (finite) score.
C5_ClippedGrowthScoresAlike ==
    call = "normalize_growth" =>
        \A i, j \in DOMAIN series :
            ((series[i] >= 200 /\ series[j] >= 200)
                \/ (series[i] <= -50 /\ series[j] <= -50))
            => IsNum(scores[i]) /\ scores[i] = scores[j]

\* C5 witness: a Series holding a rate above 200, the rate 200 and a rate
\* inside the band; both of the former scored 100, the latter 0
C5_Witness ==
    /\ call = "normalize_growth"
    /\ \E i, j, k \in DOMAIN series :
        /\ series[i] > 200
        /\ series[j] = 200
        /\ series[k] = 75
        /\ scores[i] = FromInt(100)
        /\ scores[j] = FromInt(100)
        /\ scores[k] = Zero

\* C6: the returned list is ordered by non-increasing weight, and
\* constituents of equal weight keep the order of their rows in the input
\* table (the ticker of row i is i).
C6_SortedStable ==
    call = "calculate_weights" =>
        \A i, j \in DOMAIN constituents :
            i < j =>
                /\ ~FLt(WeightOf(i), WeightOf(j))
                /\ WeightOf(i) = WeightOf(j)
                       => constituents[i].ticker < constituents[j].ticker

\* C6 witness: three constituents, the first and second of equal weight and
\* the third lighter, returned in another order than the rows came in
C6_Witness ==
    /\ call = "calculate_weights"
    /\ Len(constituents) = 3
    /\ WeightOf(1) = WeightOf(2)
    /\ FLt(WeightOf(3), WeightOf(2))
    /\ constituents[3].ticker = 1

\* C7: a table of one row yields one constituent of weight exactly 1.0,
\* whatever the configuration.
C7_SingletonWeightOne ==
    (call = "calculate_weights" /\ Len(companies) = 1)
        => Len(constituents) = 1 /\ WeightOf(1) = One

\* C8: calculate_weights on an empty table returns an empty list, and
\* summary_stats on an empty list an empty result; neither raises.
C8_EmptyInEmptyOut ==
    /\ (call = "calculate_weights" /\ companies = <<>>)
           => constituents = <<>> /\ exc = "None"
    /\ (call = "summary_stats" /\ constituents = <<>>)
           => DOMAIN stats = {} /\ exc = "None"

\* C8 witness: both calls were made on empty inputs
C8_Witness ==
    /\ call = "summary_stats"
    /\ companies = <<>>
    /\ constituents = <<>>
    /\ DOMAIN stats = {}

\* C9: when every raw blended score is non-positive, no returned weight or
\* raw score is nan or infinite.
C9_NonPositiveScoresStayFinite ==
    (Weighted /\ \A i \in DOMAIN constituents : ~FLt(Zero, constituents[i].raw_score))
        => \A i \in DOMAIN constituents :
               IsNum(constituents[i].weight) /\ IsNum(constituents[i].raw_score)

\* C10: when min_w * n <= 1 <= max_w * n for the n candidates, every
\* final weight lies in [min_w, max_w].  Stated here for the tables whose
\* total raw score is positive, where every weight is finite (the
\* zero-total tables of C9 break it as well).
C10_FeasibleBoundsRespected ==
    (/\ Weighted
     /\ Feasible(Len(companies))
     /\ FLt(Zero, TotalRawScore))
        => \A i \in DOMAIN constituents :
               FLe(obj.min_weight, WeightOf(i)) /\ FLe(WeightOf(i), obj.max_weight)

\* the instance was built with the default factor weights (0.4, 0.3, 0.3)
\* and the position bounds max 0.7, min 0.05, and has weighted ExampleTable
ExampleWeighted ==
    /\ call = "calculate_weights"
    /\ companies = ExampleTable
    /\ obj.w_space_rev = Num(4, 10)
    /\ obj.w_market_cap = Num(3, 10)
    /\ obj.w_growth = Num(3, 10)
    /\ obj.max_weight = Num(7, 10)
    /\ obj.min_weight = Num(1, 20)

\* C11: for the candidates A(100, 1e9, 50), B(50, 1e11, 10), C(10, 1e7, 0)
\* under factor weights (0.4, 0.3, 0.3), max_w 0.7 and min_w 0.05, the
\* weights sum to 1.0, A (ticker 1) is the first constituent, and every
\* normalized factor, raw score and weight is a finite number.
C11_ExampleRanksAFirst ==
    ExampleWeighted =>
        LET cap_norm == normalize_market_cap(Column(companies, "market_cap"))
            growth_norm == normalize_growth(Column(companies, "revenue_growth_rate"))
        IN  /\ Len(constituents) = 3
            /\ TotalWeight = One
            /\ constituents[1].ticker = 1
            /\ \A i \in 1..3 :
                   /\ IsNum(cap_norm[i])
                   /\ IsNum(growth_norm[i])
                   /\ IsNum(constituents[i].raw_score)
                   /\ IsNum(constituents[i].weight)

\* C11 witness: the example was weighted; A, B, C got raw scores 85, 56, 4
\* and weights 340/593, 224/593, 29/593
C11_Witness ==
    /\ ExampleWeighted
    /\ constituents[1].raw_score = FromInt(85) /\ WeightOf(1) = Num(340, 593)
    /\ constituents[2].raw_score = FromInt(56) /\ WeightOf(2) = Num(224, 593)
    /\ constituents[3].raw_score = FromInt(4) /\ WeightOf(3) = Num(29, 593)

\* C12 (checked under SpecRepeat): any two calculate_weights invocations on
\* one instance that were passed equal tables returned equal lists (same
\* order, raw scores and weights), whatever was invoked before or between
\* them; and the configuration is the one the instance was built with.
C12_Deterministic ==
    /\ Constructed => obj = InitFields(args)
    /\ \A i, j \in DOMAIN history :
           history[i].companies = history[j].companies
               => history[i].constituents = history[j].constituents

\* C12 witness: three invocations, the first and the third on the same
\* two-row table, the second on another table with another result
C12_Witness ==
    /\ Len(history) = 3
    /\ Len(history[1].companies) = 2
    /\ history[3].companies = history[1].companies
    /\ history[2].companies # history[1].companies
    /\ history[2].constituents # history[1].constituents
    /\ history[3].constituents = history[1].constituents
    /\ WeightOf(1) # WeightOf(2)

\* C13: calculate_weights returns one constituent per input record: the
\* output is as long as the input, every record's ticker occurs in exactly
\* one constituent, and that constituent carries the record's ticker, name,
\* market cap, exposure percentage, growth rate and segments unchanged.
C13_OneConstituentPerRecord ==
    call = "calculate_weights" =>
        /\ Len(constituents) = Len(companies)
        /\ \A i \in DOMAIN companies :
               /\ Cardinality({j \in DOMAIN constituents :
                                  constituents[j].ticker = companies[i].ticker}) = 1
               /\ \A j \in DOMAIN constituents :
                      constituents[j].ticker = companies[i].ticker =>
                          /\ constituents[j].name = companies[i].name
                          /\ constituents[j].market_cap = companies[i].market_cap
                          /\ constituents[j].space_revenue_pct
                                 = companies[i].space_revenue_pct
                          /\ constituents[j].revenue_growth_rate
                                 = companies[i].revenue_growth_rate
                          /\ constituents[j].segments = companies[i].segments

\* C13 witness: three records that differ in every field came back in
\* another order, the last record first
C13_Witness ==
    /\ call = "calculate_weights"
    /\ Len(companies) = 3
    /\ Len(constituents) = 3
    /\ constituents[1].ticker = 3
    /\ constituents[1].name = companies[3].name
    /\ constituents[1].market_cap = companies[3].market_cap
    /\ companies[3].market_cap # companies[1].market_cap
    /\ companies[3].space_revenue_pct # companies[1].space_revenue_pct
    /\ companies[3].revenue_growth_rate # companies[1].revenue_growth_rate

\* the sum of the three factor weights passed to the constructor
ArgsTotal ==
    FAdd(FAdd(args.space_revenue_weight, args.market_cap_weight), args.growth_weight)

\* |total - 1.0| <= 1e-9 (differences above 1e-3 are settled first)
WithinSpecTolerance(total) ==
    LET diff == FAbs(FSub(total, One))
    IN  FLe(diff, Num(1, 1000)) /\ FLe(diff, Num(1, 1000000000))

\* C14 (checked under SpecConfig): the constructor accepts a configuration
\* exactly when the sum of its factor weights is within 1e-9 of 1.0; a sum
\* further away, such as 1.000001, raises ValueError.
C14_ToleranceOneBillionth ==
    call = "__init__" =>
        /\ WithinSpecTolerance(ArgsTotal) => exc = "None" /\ Constructed
        /\ ~WithinSpecTolerance(ArgsTotal) => exc = "ValueError" /\ ~Constructed

\* C15 (checked under SpecConfig): every constructed instance has three
\* non-negative factor weights and both position bounds strictly between
\* 0 and 1.
C15_ValidatedConfiguration ==
    (call = "__init__" /\ Constructed) =>
        /\ FLe(Zero, obj.w_space_rev)
        /\ FLe(Zero, obj.w_market_cap)
        /\ FLe(Zero, obj.w_growth)
        /\ FLt(Zero, obj.max_weight) /\ FLt(obj.max_weight, One)
        /\ FLt(Zero, obj.min_weight) /\ FLt(obj.min_weight, One)

\* C16: the raw_score stored for the candidate of row i is
\* exposure*w_exposure + cap_norm*w_cap + growth_norm*w_growth, with the
\* row's exposure as given and cap_norm, growth_norm the normalizers'
\* outputs for row i over the whole table.
C16_RawScoreIsBlend ==
    Weighted =>
        LET cap_norm == normalize_market_cap(Column(companies, "market_cap"))
            growth_norm == normalize_growth(Column(companies, "revenue_growth_rate"))
        IN  \A j \in DOMAIN constituents :
                LET i == constituents[j].ticker
                IN  constituents[j].raw_score =
                        FAdd(FAdd(FMul(FromInt(companies[i].space_revenue_pct),
                                       obj.w_space_rev),
                                  FMul(cap_norm[i], obj.w_market_cap)),
                             FMul(growth_norm[i], obj.w_growth))

\* C16 witness: three candidates with three different raw scores, the
\* highest (100*0.4 + 100*0.3 + 100*0.3 = 100) stored with the last row's
\* constituent, whose weight was changed by the clipping
C16_Witness ==
    /\ Weighted
    /\ Len(constituents) = 3
    /\ obj.w_space_rev = Num(4, 10)
    /\ constituents[1].ticker = 3
    /\ constituents[1].raw_score = FromInt(100)
    /\ FLt(constituents[2].raw_score, constituents[1].raw_score)
    /\ FLt(constituents[3].raw_score, constituents[2].raw_score)
    /\ WeightOf(1) # FDiv(constituents[1].raw_score, TotalRawScore)

\* the single-pass rule on the stored raw scores: u = raw / sum(raw),
\* c = min(max(u, min_w), max_w); Python's min and max leave a nan u as it is
RuleClipped(j) ==
    LET u == FDiv(constituents[j].raw_score, TotalRawScore)
    IN  PyMin(<<obj.max_weight>>, PyMax(<<obj.min_weight>>, u))

\* C17: every final weight is c_i / sum_j c_j for the clipped shares c of
\* the single-pass rule: one clipping, one renormalization, no iteration,
\* so that a final weight may leave [min_w, max_w] again.  (Equal means the
\* same double: where the rule yields nan, the weight is nan.)
C17_SinglePassClipRenormalize ==
    Weighted =>
        LET c == Series([j \in DOMAIN constituents |-> RuleClipped(j)], Len(constituents))
        IN  \A j \in DOMAIN constituents : WeightOf(j) = FDiv(c[j], PySum(c))

\* C17 witness: a feasible pair of bounds and a positive total raw score,
\* a share was clipped and the renormalized weight lies above max_w
C17_Witness ==
    /\ Weighted
    /\ Feasible(Len(companies))
    /\ FLt(Zero, TotalRawScore)
    /\ \E j \in DOMAIN constituents :
           /\ RuleClipped(j) = obj.max_weight
           /\ FLt(obj.max_weight, WeightOf(j))

\* C18: every candidate whose market cap is zero gets the score 0 from
\* normalize_market_cap, also when the other candidates share one positive
\* market cap.
C18_ZeroCapScoresZero ==
    call = "normalize_market_cap" =>
        \A i \in DOMAIN series : series[i] = 0 => scores[i] = Zero

\* the value a normalizer rescales is defined for candidate i
Defined(i) == call = "normalize_growth" \/ series[i] # 0

\* the order of the rescaled values: the market cap itself (log10 is
\* increasing), the growth rate clipped to the band
Key(i) == IF call = "normalize_growth" THEN Band(series[i]) ELSE series[i]

\* C19: every score of normalize_market_cap and normalize_growth lies in
\* [0, 100]; when the defined transformed values are not all identical, the
\* candidates with the smallest of them score 0 and those with the largest
\* 100; and a larger raw value never scores less than a smaller one.
C19_ScoresWithinScale ==
    call \in {"normalize_market_cap", "normalize_growth"} =>
        LET D == {i \in DOMAIN series : Defined(i)}
        IN  /\ Len(scores) = Len(series)
            /\ \A i \in DOMAIN scores :
                   FLe(Zero, scores[i]) /\ FLe(scores[i], FromInt(100))
            /\ (\E i, j \in D : Key(i) # Key(j)) =>
                   \A i \in D :
                       /\ (\A j \in D : Key(i) <= Key(j)) => scores[i] = Zero
                       /\ (\A j \in D : Key(j) <= Key(i)) => scores[i] = FromInt(100)
            /\ \A i, j \in DOMAIN series :
                   series[i] <= series[j] => FLe(scores[i], scores[j])

\* C19 witness: market caps 0, 10 and 1000 in one Series scored 0, 0 and 100
C19_Witness ==
    /\ call = "normalize_market_cap"
    /\ \E i, j, k \in DOMAIN series :
           /\ series[i] = 0 /\ scores[i] = Zero
           /\ series[j] = 10 /\ scores[j] = Zero
           /\ series[k] = 1000 /\ scores[k] = FromInt(100)

\* C20: for a non-empty list returned by calculate_weights, summary_stats
\* reports the list length, total weight 1.0 (the sum of the weights), the
\* largest and the smallest weight, and the weighted averages of exposure
\* and growth as the sums of value * weight.
C20_SummaryOfConstituents ==
    (call = "summary_stats" /\ constituents # <<>>) =>
        LET n == Len(constituents)
            times(col) == Series([i \in DOMAIN constituents |->
                              FMul(FromInt(constituents[i][col]), WeightOf(i))], n)
        IN  /\ stats.num_constituents = n
            /\ stats.total_weight = TotalWeight
            /\ stats.total_weight = One
            /\ \A i \in 1..n : FLe(WeightOf(i), stats.max_weight)
            /\ \A i \in 1..n : FLe(stats.min_weight, WeightOf(i))
            /\ \E i \in 1..n : stats.max_weight = WeightOf(i)
            /\ \E i \in 1..n : stats.min_weight = WeightOf(i)
            /\ stats.weighted_avg_space_rev_pct = PySum(times("space_revenue_pct"))
            /\ stats.weighted_avg_growth = PySum(times("revenue_growth_rate"))

\* the latest calculate_weights invocation: the table as it was passed and
\* the list that was returned
LastCall == history[Len(history)]

\* C21: after calculate_weights and after summary_stats the caller's table
\* is the table that was passed (rows, values, order), the list passed to
\* summary_stats is the list calculate_weights returned, and the five
\* fields of the instance are the ones the constructor set.
C21_InputsUnchanged ==
    /\ call \in {"calculate_weights", "summary_stats"} =>
           /\ companies = LastCall.companies
           /\ obj = InitFields(args)
    /\ call = "summary_stats" => constituents = LastCall.constituents

\* C21 witness: both calls were made on a three-row table whose last row
\* came out first, and the table still starts with its first row
C21_Witness ==
    /\ call = "summary_stats"
    /\ Len(companies) = 3
    /\ companies[1].ticker = 1
    /\ constituents[1].ticker = 3
    /\ stats.num_constituents = 3

Confidences == {"high", "medium", "low"}

\* the table with other names, no segment tags and the confidence label c
\* on every row; ticker, market cap, exposure and growth rate as they are
Relabelled(table, c) ==
    Series([i \in DOMAIN table |->
               [table[i] EXCEPT !.name = <<"Renamed", i>>,
                                !.segments = "",
                                !.confidence = c]], Len(table))

\* C22: a table that agrees with the weighted one on ticker, market cap,
\* exposure and growth rate of every record, but differs in confidence,
\* name and segments, yields the same weights, raw scores and output order.
C22_ConfidenceNotUsed ==
    Weighted =>
        \A c \in Confidences :
            LET other == calculate_weights(obj, Relabelled(companies, c))
            IN  /\ Len(other) = Len(constituents)
                /\ \A j \in DOMAIN constituents :
                       /\ other[j].ticker = constituents[j].ticker
                       /\ other[j].raw_score = constituents[j].raw_score
                       /\ other[j].weight = constituents[j].weight

\* C22 witness: three records of confidence high, medium and low with three
\* different weights; relabelled to low they come out with other names and
\* the same weights
C22_Witness ==
    /\ Weighted
    /\ Len(constituents) = 3
    /\ companies[1].confidence = "high"
    /\ companies[2].confidence = "medium"
    /\ FLt(WeightOf(2), WeightOf(1))
    /\ FLt(WeightOf(3), WeightOf(2))
    /\ LET other == calculate_weights(obj, Relabelled(companies, "low"))
       IN  /\ other[1].name # constituents[1].name
           /\ other[1].weight = WeightOf(1)

\* a calculate_weights call whose total raw score is positive has returned
PositiveTotal == Weighted /\ FLt(Zero, TotalRawScore)

\* C25: with a positive total raw score, a candidate whose raw score is at
\* least another's gets at least the other's final weight; equal raw
\* scores get equal weights.
C25_RankingPreserved ==
    PositiveTotal =>
        \A i, j \in DOMAIN constituents :
            FLe(constituents[j].raw_score, constituents[i].raw_score)
                => FLe(WeightOf(j), WeightOf(i))

\* C25 witness: three raw scores in strict order, the highest share clipped
\* to max_w and the lowest to min_w, and the weights in the same strict order
C25_Witness ==
    /\ PositiveTotal
    /\ Len(constituents) = 3
    /\ FLt(constituents[2].raw_score, constituents[1].raw_score)
    /\ FLt(constituents[3].raw_score, constituents[2].raw_score)
    /\ RuleClipped(1) = obj.max_weight
    /\ RuleClipped(3) = obj.min_weight
    /\ FLt(WeightOf(2), WeightOf(1))
    /\ FLt(WeightOf(3), WeightOf(2))

\* C26: with a positive total raw score and min_w > 0, every final weight
\* is strictly positive and at most 1.0.
C26_WeightsPositive ==
    (PositiveTotal /\ FLt(Zero, obj.min_weight)) =>
        \A i \in DOMAIN constituents :
            FLt(Zero, WeightOf(i)) /\ FLe(WeightOf(i), One)

\* C26 witness: a candidate whose raw score is 0, beside one with a positive
\* raw score, has a positive weight
C26_Witness ==
    /\ PositiveTotal
    /\ FLt(Zero, obj.min_weight)
    /\ \E i \in DOMAIN constituents :
           constituents[i].raw_score = Zero /\ FLt(Zero, WeightOf(i))

\* the unconstrained weight raw_j / sum(raw) of constituent j
Share(j) == FDiv(constituents[j].raw_score, TotalRawScore)

WithinBounds(x) == FLe(obj.min_weight, x) /\ FLe(x, obj.max_weight)

\* C27: when every unconstrained weight lies in [min_w, max_w], each final
\* weight equals raw_i / sum(raw) and lies in [min_w, max_w]; a final
\* weight outside the bounds occurs only when some unconstrained weight was
\* outside them.
C27_IdentityWithinBounds ==
    Weighted =>
        /\ (\A j \in DOMAIN constituents : WithinBounds(Share(j))) =>
               \A j \in DOMAIN constituents :
                   WeightOf(j) = Share(j) /\ WithinBounds(WeightOf(j))
        /\ (\E j \in DOMAIN constituents : ~WithinBounds(WeightOf(j))) =>
               \E j \in DOMAIN constituents : ~WithinBounds(Share(j))

\* C27 witness: two candidates with different shares (raw scores 70 and
\* 30), both within the bounds, weighted with their shares
C27_Witness ==
    /\ Weighted
    /\ Len(constituents) = 2
    /\ \A j \in DOMAIN constituents : WithinBounds(Share(j))
    /\ FLt(WeightOf(2), WeightOf(1))
    /\ WeightOf(1) = Share(1)
    /\ WeightOf(2) = Share(2)

\* C23 (checked under SpecConcurrent): under every interleaving of two
\* calculate_weights calls (on the same or on different instances), the
\* list each call returned holds what the call returns when run alone, and
\* no two calls use the same list object.
C23_ConcurrentCallsIndependent ==
    /\ \A c \in Callers :
           threads[c].pc = "returned" =>
               heap[threads[c].ref]
                   = calculate_weights(threads[c].self, threads[c].companies)
    /\ \A c, d \in Callers :
           (c # d /\ threads[c].ref # 0) => threads[c].ref # threads[d].ref

\* C23 witness: caller2 built its list after caller1 and returned while
\* caller1, on the same instance and another table, was still between
\* building and sorting; both lists hold two constituents
C23_Witness ==
    /\ threads["caller1"].pc = "built"
    /\ threads["caller2"].pc = "returned"
    /\ threads["caller1"].ref = 1
    /\ threads["caller2"].ref = 2
    /\ threads["caller1"].self = threads["caller2"].self
    /\ threads["caller1"].companies # threads["caller2"].companies
    /\ Len(heap[1]) = 2
    /\ Len(heap[2]) = 2
    /\ heap[2][1].ticker = 2

\* the periods of the financials last fetched that carry a fiscal year and
\* a revenue
ValidPeriods ==
    {i \in DOMAIN growth.fetched.financials :
        LET p == growth.fetched.financials[i]
        IN  p.revenue # 0 /\ p.fiscal_year # 0}

\* the rate the company processed last is due: year over year between the
\* two most recent valid fiscal years, or else the estimate
DueGrowthRate ==
    LET f == growth.fetched.financials
    IN  IF ~growth.fetched.raised /\ Cardinality(ValidPeriods) >= 2
        THEN LET l == CHOOSE i \in ValidPeriods :
                          \A j \in ValidPeriods : f[j].fiscal_year <= f[i].fiscal_year
                 p == CHOOSE i \in ValidPeriods \ {l} :
                          \A j \in ValidPeriods \ {l} : f[j].fiscal_year <= f[i].fiscal_year
             IN  Num((f[l].revenue - f[p].revenue) * 100, f[p].revenue)
        ELSE EstimatedGrowth(growth.script, growth.tickers[growth.idx])

\* C24 (checked under SpecGrowth): after every pass of the growth loop,
\* growth_data holds exactly one entry per company processed, in order,
\* and the entry of the company processed last is the year-over-year rate
\* of its two most recent valid fiscal years when there are two, and the
\* estimate otherwise (too few periods, no data, fetch raised).
C24_OneGrowthEntryPerCompany ==
    growth.script # "none" =>
        /\ Len(growth.growth_data) = growth.idx
        /\ \A i \in 1..growth.idx : growth.growth_data[i].ticker = growth.tickers[i]
        /\ growth.idx > 0 =>
               growth.growth_data[growth.idx].revenue_growth_rate = DueGrowthRate

\* C24 witness: the first company's fetch raised and it got the estimate;
\* the second company's financials came latest year first with three valid
\* periods, and its rate is (300 - 150) / 150 * 100 = 100
C24_Witness ==
    /\ growth.script = "build_index"
    /\ growth.idx = 2
    /\ Len(growth.growth_data) = 2
    /\ growth.growth_data[1] = GrowthEntry("ASTS", FromInt(150))
    /\ growth.fetched.financials
           = << Period(2024, 300), Period(2023, 150), Period(2022, 100) >>
    /\ growth.growth_data[2] = GrowthEntry("RKLB", FromInt(100))

\* the classification a failed parse or a failed company is reported with
IsFallback(c) ==
    /\ c.is_space_related = FALSE
    /\ c.space_revenue_pct = 0
    /\ c.confidence = "low"
    /\ c.segments = "[]"

\* the response text holds no JSON object, or one whose space_revenue_pct
\* is not a number or a numeric string
CannotParse(text) ==
    \/ ~JsonValid(JsonStr(text))
    \/ FloatRaises(JsonGet(JsonStr(text), "space_revenue_pct", "0")) # "None"

\* C28 (checked under SpecClassifier): _parse_response raises for no
\* response text, and returns the fallback classification whenever the
\* text cannot be parsed.
C28_ParseNeverRaises ==
    parsed.call = "_parse_response" =>
        /\ parsed.exc = "None"
        /\ CannotParse(parsed.response_text) => IsFallback(parsed.result)

\* C29 (checked under SpecClassifier): batch_classify returns one result
\* per company, in input order, and a company whose classification raised
\* is reported with the fallback.
C29_OneResultPerCompany ==
    batch.call = "batch_classify" =>
        /\ Len(batch.results) = Len(batch.outcomes)
        /\ \A i \in DOMAIN batch.outcomes :
               /\ batch.results[i].ticker = i
               /\ batch.outcomes[i].raised => IsFallback(batch.results[i])

\* the HTTP attempts a call has made so far
Attempts == {i \in DOMAIN request.log : request.log[i] \in GetOutcomes}

RequestSafe ==
    /\ Cardinality(Attempts) <= 3
    /\ \A i \in Attempts : i > 1 /\ request.log[i - 1] = "sleep"
    /\ \A i \in Attempts :
           request.log[i] = "200" =>
               /\ i = Len(request.log)
               /\ request.pc = "done"
               /\ request.result \in {"returned dict", "returned market_cap", "returned None"}
    /\ (request.pc = "done" /\ request.log[Len(request.log)] # "200") =>
           /\ Cardinality(Attempts) = 3
           /\ request.result =
                  (IF request.caller = "get_market_cap" THEN "returned None"
                   ELSE "raised RetryError")

\* C30 (checked under SpecClient): a call makes at most 3 HTTP attempts,
\* each directly preceded by the rate-limit delay; the first successful
\* response is returned without a further attempt; after 3 failed attempts
\* the call raises, and get_market_cap returns None instead; every call
\* that has begun comes to an end.
C30_BoundedRetries ==
    /\ []RequestSafe
    /\ (request.pc # "idle") ~> (request.pc = "done")

C30_Witness ==
    /\ request.pc = "done"
    /\ request.caller = "get_market_cap"
    /\ Cardinality(Attempts) = 3
    /\ \A i \in Attempts : request.log[i] \in FailedGets
    /\ request.result = "returned None"

====
